---- MODULE Spec2Model ----
(***************************************************************************)
(* LGSM Secure Link Management System.                                     *)
(*                                                                         *)
(* The spoke agent (src/spoke/main.py): target enumeration, script         *)
(* discovery, session probing, process fallback, reconciliation            *)
(* (status), command dispatch, log reading and log streaming.              *)
(* The hub (src/hub/app.py): the heartbeat monitor and its alert sink.     *)
(*                                                                         *)
(* Strings whose characters matter (script, session and file names,        *)
(* command-line arguments) are sequences of one-character strings.         *)
(***************************************************************************)
EXTENDS Integers, Sequences, FiniteSets, TLC

VARIABLES
    \* ---- the host the spoke runs on (read by every spoke operation)
    GAME_USERS,       \* the configured value, split at ","
    caller,           \* the account the agent process runs as
    home,             \* account -> set of directory entries of its home
    tmux,             \* account -> sessions of its default tmux server
    sockets,          \* accounts whose /tmp/tmux-<uid>/default exists
    procs,            \* the process table
    fail,             \* the discovery failure induced on one account
    logfiles,         \* account -> console log files under its home
    \* ---- get_status
    st_pc,            \* "idle" | "done"
    targets,          \* get_target_users() of the call
    scripts,          \* per target: the scripts discovered
    active_sessions,  \* per target: the sessions the tmux query listed
    response,         \* what the call returned
    \* ---- run_command, get_logs, stream_logs
    req,              \* the request being handled
    result,           \* its HTTP outcome
    spawned,          \* the subprocesses the request has started
    ws_pc,            \* stream_logs: the handler's position
    ws_client,        \* stream_logs: "connected" | "gone"
    child,            \* stream_logs: the tail -f child
    sent,             \* stream_logs: number of lines forwarded
    \* ---- the hub's heartbeat_monitor
    hb_pc,            \* the monitor's position
    spokes,           \* rows of the spokes table
    snapshot,         \* the rows fetched for the current cycle
    hb_i,             \* index of the spoke being polled
    inflight,         \* indices of the snapshot whose poll is in flight
    outcome,          \* per polled index: what the poll returned
    alerts,           \* alerts handed to send_discord_alert this cycle
    cycle             \* number of completed cycles

world_vars  == <<GAME_USERS, caller, home, tmux, sockets, procs, fail, logfiles>>
status_vars == <<st_pc, targets, scripts, active_sessions, response>>
spoke_vars  == <<req, result, spawned, ws_pc, ws_client, child, sent>>
hub_vars    == <<hb_pc, spokes, snapshot, hb_i, inflight, outcome, alerts, cycle>>
vars == <<world_vars, status_vars, spoke_vars, hub_vars>>

(***************************************************************************)
(* Bounds of the model.                                                    *)
(***************************************************************************)
MaxFiles    == 2   \* entries in the home of the account explored in detail
MaxSessions == 2   \* sessions of that account's tmux server
MaxProcs    == 1   \* processes in the process table

(***************************************************************************)
(* Strings.                                                                *)
(***************************************************************************)
\* str.startswith
StartsWith(s, p) == Len(p) <= Len(s) /\ SubSeq(s, 1, Len(p)) = p

\* str.endswith
EndsWith(s, p) == Len(p) <= Len(s) /\ SubSeq(s, Len(s) - Len(p) + 1, Len(s)) = p

\* p in s (substring)
Contains(s, p) ==
    \E i \in 1..(Len(s) - Len(p) + 1) : SubSeq(s, i, i + Len(p) - 1) = p

\* c in s (one character)
HasChar(s, c) == \E i \in 1..Len(s) : s[i] = c

\* str.lower, on the characters the model uses
LowerChar(c) ==
    CASE c = "T" -> "t" [] c = "M" -> "m" [] c = "U" -> "u" [] c = "X" -> "x"
      [] OTHER -> c

Lower(s) == [i \in 1..Len(s) |-> LowerChar(s[i])]

\* ' '.join(args)
RECURSIVE JoinSpace(_)
JoinSpace(args) ==
    IF args = <<>> THEN <<>>
    ELSE IF Len(args) = 1 THEN args[1]
    ELSE args[1] \o <<" ">> \o JoinSpace(Tail(args))

\* line.split(":")[0]: the text before the first ":"
RECURSIVE BeforeColon(_)
BeforeColon(s) ==
    IF s = <<>> \/ Head(s) = ":" THEN <<>>
    ELSE <<Head(s)>> \o BeforeColon(Tail(s))

\* str.strip, for blanks at both ends
RECURSIVE StripSeq(_)
StripSeq(s) ==
    IF s = <<>> THEN s
    ELSE IF Head(s) = " " THEN StripSeq(Tail(s))
    ELSE IF s[Len(s)] = " " THEN StripSeq(SubSeq(s, 1, Len(s) - 1))
    ELSE s

\* the concatenation of a sequence of sequences
RECURSIVE Flatten(_)
Flatten(ss) == IF ss = <<>> THEN <<>> ELSE Head(ss) \o Flatten(Tail(ss))

\* [f(x) for x in s]
Range(s) == {s[i] : i \in DOMAIN s}

(***************************************************************************)
(* The account database (pwd).                                             *)
(***************************************************************************)
\* pwd.getpwall(): root, a service account below uid 1000 with a home under
\* /home, and two game accounts
getpwall ==
    << [pw_name |-> "root", pw_uid |-> 0,    under_home |-> FALSE],
       [pw_name |-> "svc",  pw_uid |-> 999,  under_home |-> TRUE],
       [pw_name |-> "u1",   pw_uid |-> 1000, under_home |-> TRUE],
       [pw_name |-> "u2",   pw_uid |-> 1001, under_home |-> TRUE] >>

Accounts == {getpwall[i].pw_name : i \in DOMAIN getpwall}

\* pwd.getpwnam(name) succeeds
KnownAccount(name) == name \in Accounts

\* the "real user" threshold of auto discovery
MinRealUid == 1000

\* u.strip() of one piece of GAME_USERS.split(",")
Strip(tok) ==
    CASE tok = " u1 " -> "u1"
      [] tok = " "    -> ""
      [] OTHER        -> tok

\* the explicit branch: getpwnam of each non-empty stripped piece, unknown names skipped
RECURSIVE ResolveList(_)
ResolveList(toks) ==
    IF toks = <<>> THEN <<>>
    ELSE LET u == Strip(Head(toks)) IN
         IF u = "" THEN ResolveList(Tail(toks))
         ELSE IF KnownAccount(u) THEN <<u>> \o ResolveList(Tail(toks))
         ELSE ResolveList(Tail(toks))

\* the auto branch: every account with a home under /home and uid >= 1000
AutoUsers ==
    LET keep(p) == p.under_home /\ p.pw_uid >= MinRealUid
        kept == SelectSeq(getpwall, keep)
    IN [i \in 1..Len(kept) |-> kept[i].pw_name]

\* get_target_users(): the user names, in order (the home is pw_dir of the name)
get_target_users(cfg) ==
    IF cfg = <<"auto">> THEN AutoUsers ELSE ResolveList(cfg)

(***************************************************************************)
(* Names used by the host states the model explores.                       *)
(***************************************************************************)
nA       == <<"a">>
nB       == <<"b">>
nC       == <<"c">>
nA1      == <<"a", "-", "1">>
nAB      == <<"a", "b">>
nDotA    == <<".", "a">>
nD       == <<"d">>
nLgsm    == <<"l", "g", "s", "m">>
nXServer == <<"x", "s", "e", "r", "v", "e", "r">>
sServer  == <<"s", "e", "r", "v", "e", "r">>
sTmux    == <<"t", "m", "u", "x">>
sTMUX    == <<"T", "M", "U", "X">>
sRunA    == <<".", "/", "a">>

\* session: None of an instance that is not running
None == <<>>

(***************************************************************************)
(* Script Discoverer (get_status, step 1).                                 *)
(***************************************************************************)
\* the names of excluded_files the model's directories can hold
excluded_files ==
    { <<"s", "e", "t", "u", "p", ".", "s", "h">>,
      <<"u", "n", "i", "n", "s", "t", "a", "l", "l", ".", "s", "h">>,
      <<"m", "a", "i", "n", ".", "p", "y">>,
      <<"l", "i", "n", "u", "x", "g", "s", "m", ".", "s", "h">>,
      nLgsm,
      <<"f", "u", "n", "c", "t", "i", "o", "n", "s">>,
      <<"l", "o", "g">>,
      <<"b", "a", "c", "k", "u", "p", "s">>,
      <<"s", "e", "r", "v", "e", "r", "f", "i", "l", "e", "s">>,
      <<"l", "g", "s", "m", "-", "d", "b">> }

\* what the first 500 bytes of a file hold: one of the signature tokens, something
\* else, or the file cannot be opened
HeadHasSignature(head) == head \in {"LGSM", "linuxgsm", "check_deps"}

\* the entries a home directory of the model can hold, in os.listdir order
DirPool ==
    << [name |-> nA,       isfile |-> TRUE,  exec |-> TRUE,  head |-> "LGSM"],
       [name |-> nB,       isfile |-> TRUE,  exec |-> TRUE,  head |-> "linuxgsm"],
       [name |-> nA1,      isfile |-> TRUE,  exec |-> TRUE,  head |-> "check_deps"],
       [name |-> nXServer, isfile |-> TRUE,  exec |-> TRUE,  head |-> "unreadable"],
       [name |-> nDotA,    isfile |-> TRUE,  exec |-> TRUE,  head |-> "LGSM"],
       [name |-> nLgsm,    isfile |-> FALSE, exec |-> TRUE,  head |-> "unreadable"],
       [name |-> nD,       isfile |-> TRUE,  exec |-> TRUE,  head |-> "other"] >>

\* the filter of lines 97-115
IsCandidate(e) ==
    /\ e.isfile
    /\ e.exec
    /\ ~StartsWith(e.name, <<".">>)
    /\ e.name \notin excluded_files
    /\ (EndsWith(e.name, sServer) \/ HeadHasSignature(e.head))

\* os.listdir(u_dir) raises for the account the failure is induced on
ListdirFails(u, f) == f.user = u /\ f.listdir

\* os.listdir(u_dir)
ListDir(u) == SelectSeq(DirPool, LAMBDA e : e \in home[u])

\* scripts of one target
Discover(u, f) ==
    IF ListdirFails(u, f) THEN <<>>
    ELSE LET kept == SelectSeq(ListDir(u), IsCandidate)
         IN [i \in 1..Len(kept) |-> kept[i].name]

(***************************************************************************)
(* Session Prober (get_status, step 2).                                    *)
(***************************************************************************)
\* the session names a tmux server of the model can hold, in tmux ls order
SessionPool == <<nA, nA1, nAB, nC>>

\* socket_path of an account, /tmp/tmux-<uid>/default (the uid named by its account)
SocketOf(u) == "/tmp/tmux-" \o u \o "/default"

\* the account whose tmux server listens on a socket path
SocketOwner(path) == CHOOSE a \in Accounts : SocketOf(a) = path

\* os.path.exists(socket_path): /tmp/tmux-<uid> is private to its owner
SocketVisible(u) == u \in sockets /\ (caller = u \/ caller = "root")

\* tmux_cmd of lines 132-139
tmux_cmd(u) ==
    (IF caller = u \/ caller = "root"
        THEN <<"tmux">>
        ELSE <<"sudo", "-n", "-u", u, "tmux">>)
    \o (IF SocketVisible(u) THEN <<"-S", SocketOf(u)>> ELSE <<>>)
    \o <<"ls">>

\* the account whose server a tmux command line addresses: the socket given with -S,
\* else the default server of the account the command runs as
ServerOf(cmd) ==
    IF \E i \in 1..Len(cmd) - 1 : cmd[i] = "-S"
    THEN LET i == CHOOSE i \in 1..Len(cmd) - 1 : cmd[i] = "-S" IN SocketOwner(cmd[i + 1])
    ELSE IF cmd[1] = "sudo" THEN cmd[4] ELSE caller

\* one line of tmux ls
TmuxLine(n) == n \o <<":", " ", "1", " ", "w">>

\* stdout of tmux ls against the server of account a
TmuxStdout(a) ==
    LET names == SelectSeq(SessionPool, LAMBDA n : n \in tmux[a])
    IN [i \in 1..Len(names) |-> TmuxLine(names[i])]

\* lines 147-150: the session name of every line that holds a ":"
ParseSessions(lines) ==
    LET with == SelectSeq(lines, LAMBDA l : HasChar(l, ":"))
    IN [i \in 1..Len(with) |-> StripSeq(BeforeColon(with[i]))]

\* active_sessions of one target: empty when subprocess.run raises (timeout) or
\* returns non-zero (sudo refused, no server running, failed to connect)
Probe(u, f) ==
    IF f.user = u /\ f.tmux # "ok" THEN <<>>
    ELSE LET a == ServerOf(tmux_cmd(u)) IN
         IF tmux[a] = {} THEN <<>> ELSE ParseSessions(TmuxStdout(a))

(***************************************************************************)
(* Process Fallback Matcher and Reconciler (get_status, steps 3 and 4).    *)
(***************************************************************************)
\* the processes the table of the model can hold, in process_iter order
ProcPool ==
    << [username |-> "u1", cmdline |-> <<sTmux, sRunA>>],
       [username |-> "u1", cmdline |-> <<sRunA>>],
       [username |-> "u2", cmdline |-> <<sTmux, sRunA>>],
       [username |-> "u1", cmdline |-> <<sTMUX, nB>>],
       [username |-> "u1", cmdline |-> <<>>] >>

\* psutil.process_iter(['username', 'cmdline'])
process_iter == SelectSeq(ProcPool, LAMBDA p : p \in procs)

\* line 162 with the "-" left out of the prefix: any session that starts with the name
SessionMatch_AnyPrefix(script, sess) ==
    \E i \in 1..Len(sess) :
        sess[i] = script \/ StartsWith(sess[i], script)

\* line 162
SessionMatch(script, sess) ==
    \E i \in 1..Len(sess) :
        sess[i] = script \/ StartsWith(sess[i], script \o <<"-">>)

\* lines 169-172
ProcMatch(p, u, script) ==
    /\ p.username = u
    /\ p.cmdline # <<>>
    /\ \E k \in 1..Len(p.cmdline) : Contains(p.cmdline[k], script)
    /\ Contains(Lower(JoinSpace(p.cmdline)), sTmux)

\* lines 165-176: the scan, which a raised error ends without a match
Fallback(u, script, f) ==
    IF f.user = u /\ f.ps THEN FALSE
    ELSE \E k \in 1..Len(process_iter) : ProcMatch(process_iter[k], u, script)

is_running(u, script, sess, f) ==
    SessionMatch(script, sess) \/ Fallback(u, script, f)

\* lines 178-183
ScriptInstance(u, script, running) ==
    [user |-> u, script |-> script,
     session |-> IF running THEN script ELSE None,
     status |-> IF running THEN "running" ELSE "stopped",
     is_zombie |-> FALSE]

\* lines 188-194
ZombieInstance(u, session) ==
    [user |-> u, script |-> session, session |-> session,
     status |-> "running", is_zombie |-> TRUE]

\* line 187
IsZombie(session, scr) == session \notin Range(scr)

\* the instances one target adds to all_instances
InstancesOf(u, scr, sess, f) ==
    LET zs == SelectSeq(sess, LAMBDA s : IsZombie(s, scr))
    IN [i \in 1..Len(scr) |-> ScriptInstance(u, scr[i], is_running(u, scr[i], sess, f))]
       \o [i \in 1..Len(zs) |-> ZombieInstance(u, zs[i])]

\* the body of get_status under failure f
StatusTargets == get_target_users(GAME_USERS)
StatusScripts(f)  == [i \in 1..Len(StatusTargets) |-> Discover(StatusTargets[i], f)]
StatusSessions(f) == [i \in 1..Len(StatusTargets) |-> Probe(StatusTargets[i], f)]
all_instances(f) ==
    Flatten([i \in 1..Len(StatusTargets) |->
                InstancesOf(StatusTargets[i], StatusScripts(f)[i], StatusSessions(f)[i], f)])

\* get_status without the try of lines 93-117: the error of os.listdir reaches line 197
StatusResponse_ListdirRaises(f) ==
    IF \E i \in DOMAIN StatusTargets : ListdirFails(StatusTargets[i], f)
    THEN [status |-> "error", sessions |-> <<>>]
    ELSE [status |-> "online", sessions |-> all_instances(f)]

\* line 196; line 198 is reached by no failure the loop does not catch itself
StatusResponse(f) == [status |-> "online", sessions |-> all_instances(f)]

\* GET /status with the configured key
GetStatus ==
    /\ st_pc = "idle"
    /\ st_pc' = "done"
    /\ targets' = StatusTargets
    /\ scripts' = StatusScripts(fail)
    /\ active_sessions' = StatusSessions(fail)
    /\ response' = StatusResponse(fail)
    /\ UNCHANGED <<world_vars, spoke_vars, hub_vars>>

(***************************************************************************)
(* The host states explored.                                               *)
(***************************************************************************)
BoundedSubsets(S, n) == {T \in SUBSET S : Cardinality(T) <= n}

NoFail == [user |-> "none", listdir |-> FALSE, tmux |-> "ok", ps |-> FALSE]

\* one failure induced on one managed account
Failures ==
    {NoFail} \cup
    { [user |-> u, listdir |-> k = "listdir",
       tmux |-> (IF k \in {"error", "timeout"} THEN k ELSE "ok"), ps |-> k = "ps"] :
        u \in {"u1", "u2"}, k \in {"listdir", "error", "timeout", "ps"} }

\* values of GAME_USERS, split at ",": auto discovery, one account, two accounts,
\* one account named twice, blanks and an unknown name, nothing
Configs ==
    { <<"auto">>, <<"u1">>, <<"u1", "u2">>, <<"u1", "u1">>,
      <<" u1 ", "", "ghost">>, <<"ghost", "u2", " ">>, <<>> }

NoHome == [a \in Accounts |-> {}]

\* one managed account, its home, server and the process table explored in detail
DetailedHost ==
    /\ GAME_USERS = <<"u1">>
    /\ caller \in {"root", "u1", "agent"}
    /\ \E F \in BoundedSubsets(Range(DirPool), MaxFiles) :
           home = [NoHome EXCEPT !["u1"] = F]
    /\ \E S \in BoundedSubsets(Range(SessionPool), MaxSessions), R \in {{}, {nC}} :
           tmux = [a \in Accounts |-> IF a = "u1" THEN S ELSE IF a = "root" THEN R ELSE {}]
    /\ \E stale \in SUBSET {"u1"} :
           sockets = {a \in Accounts : tmux[a] # {}} \cup stale
    /\ procs \in BoundedSubsets(Range(ProcPool), MaxProcs)
    /\ fail = NoFail

\* every configuration and every induced failure, over small homes and servers
ManyUsersHost ==
    /\ GAME_USERS \in Configs
    /\ caller \in {"root", "agent"}
    /\ \E F1, F2 \in {{}, {DirPool[1]}, {DirPool[2]}} :
           home = [NoHome EXCEPT !["u1"] = F1, !["u2"] = F2]
    /\ \E S1, S2 \in {{}, {nA}, {nC}} :
           tmux = [a \in Accounts |-> IF a = "u1" THEN S1 ELSE IF a = "u2" THEN S2 ELSE {}]
    /\ sockets = {a \in Accounts : tmux[a] # {}}
    /\ procs \in {{}, {ProcPool[1]}}
    /\ fail \in Failures

InitStatusVars ==
    /\ st_pc = "idle"
    /\ targets = <<>>
    /\ scripts = <<>>
    /\ active_sessions = <<>>
    /\ response = [status |-> "none", sessions |-> <<>>]

InitSpokeVars ==
    /\ req = [op |-> "none"]
    /\ result = [code |-> 0]
    /\ spawned = <<>>
    /\ ws_pc = "idle"
    /\ ws_client = "none"
    /\ child = "none"
    /\ sent = 0

InitHubVars ==
    /\ hb_pc = "sleep"
    /\ spokes = <<>>
    /\ snapshot = <<>>
    /\ hb_i = 0
    /\ inflight = {}
    /\ outcome = <<>>
    /\ alerts = <<>>
    /\ cycle = 0

InitStatus ==
    /\ (DetailedHost \/ ManyUsersHost)
    /\ logfiles = NoHome
    /\ InitStatusVars /\ InitSpokeVars /\ InitHubVars

NextStatus == GetStatus

\* status() over the host states
SpecStatus == InitStatus /\ [][NextStatus]_vars

(***************************************************************************)
(* Properties of status().                                                 *)
(***************************************************************************)
\* the instances of the response reported under one user
InstancesUnder(u) == SelectSeq(response.sessions, LAMBDA x : x.user = u)

\* a listed session pairs with a script: it is the script name or extends it by "-..."
Pairs(n, s) ==
    n = s \/ (Len(n) > Len(s) /\ [k \in 1..Len(s) + 1 |-> n[k]] = Append(s, "-"))

\* a process of u whose command line holds the script name and names tmux
Corroborates(p, u, s) ==
    /\ p.username = u
    /\ \E arg \in Range(p.cmdline) : Contains(arg, s)
    /\ Contains(Lower(JoinSpace(p.cmdline)), sTmux)

\* the status the reconciliation rule gives script s of target i
ExpectedStatus(i, s) ==
    IF \E n \in Range(active_sessions[i]) : Pairs(n, s) THEN "running"
    ELSE IF /\ ~(fail.user = targets[i] /\ fail.ps)
            /\ \E p \in procs : Corroborates(p, targets[i], s) THEN "running"
    ELSE "stopped"

C2_ZombieIffUnmatched ==
    st_pc = "done" =>
        \A i \in DOMAIN targets : \A n \in Range(active_sessions[i]) :
            (\E x \in Range(response.sessions) :
                x.user = targets[i] /\ x.is_zombie /\ x.script = n)
            <=> ~\E s \in Range(scripts[i]) : Pairs(n, s)

\* C3: whatever GAME_USERS holds, a response reports each discovered (user, script)
\* once: no two script instances of it have the same user and the same script.
C3_OneInstancePerScript ==
    \A j, k \in DOMAIN response.sessions :
        (j # k /\ ~response.sessions[j].is_zombie /\ ~response.sessions[k].is_zombie)
            => ~( /\ response.sessions[j].user = response.sessions[k].user
                  /\ response.sessions[j].script = response.sessions[k].script )

\* C9: a failure induced on one managed user leaves the instances reported under every
\* other managed user as they are without the failure, and the response stays online.
C9_Isolation ==
    st_pc = "done" =>
        /\ response.status = "online"
        /\ \A y \in Range(targets) :
              y # fail.user =>
                  InstancesUnder(y) = SelectSeq(all_instances(NoFail), LAMBDA x : x.user = y)

\* u1's home cannot be listed, which hides its script, and u2's instance is reported
C9_Witness ==
    /\ st_pc = "done"
    /\ targets = <<"u1", "u2">>
    /\ fail.user = "u1" /\ fail.listdir
    /\ response.sessions # all_instances(NoFail)
    /\ \E x \in Range(response.sessions) : x.user = "u2" /\ x.status = "running"

(***************************************************************************)
(* Command Dispatcher, Log Reader, Log Streamer.                           *)
(***************************************************************************)
\* API_KEY of the environment
API_KEY == "good"

\* verify_token raises 403
TokenRejected(key) == key # API_KEY

allowed_actions == {"start", "stop", "restart", "update", "backup"}

\* the script-name check with the "|" test left out
InvalidScriptName_NoPipe(script) ==
    \/ script = <<>>
    \/ HasChar(script, "/")
    \/ HasChar(script, "\\")
    \/ StartsWith(script, <<".">>)
    \/ HasChar(script, ";")
    \/ HasChar(script, "&")

\* the script-name check of lines 217, 258 and 350
InvalidScriptName(script) ==
    \/ script = <<>>
    \/ HasChar(script, "/")
    \/ HasChar(script, "\\")
    \/ StartsWith(script, <<".">>)
    \/ HasChar(script, ";")
    \/ HasChar(script, "|")
    \/ HasChar(script, "&")

\* the bounds of the lines parameter
MinLines == 1
MaxLinesParam == 10000

\* line 262
InvalidLines(n) == n < MinLines \/ n > MaxLinesParam

\* os.path.exists(f"{u_dir}/{script}")
ScriptExists(u, script) == \E e \in home[u] : e.name = script

\* os.path.exists of the k-th of possible_paths under the home of u:
\* 1 log/console/<script>-console.log, 2 log/console/<script>.log, 3 log/<script>-console.log
LogExists(u, script, k) ==
    \E l \in logfiles[u] : l.script = script /\ l.pattern = k

\* os.access(log_path, os.R_OK)
LogReadable(u, script, k) ==
    \E l \in logfiles[u] : l.script = script /\ l.pattern = k /\ l.readable

\* the first user of a list that is among holders, "" when there is none
FirstUser(us, holders) ==
    LET with == SelectSeq(us, LAMBDA u : u \in holders)
    IN IF with = <<>> THEN "" ELSE with[1]

\* lines 224-231: the owner found for a script when no user is given
OwnerOfScript(script) ==
    FirstUser(get_target_users(GAME_USERS), {u \in Accounts : ScriptExists(u, script)})

\* lines 269-274 and 360-364: the owner found for a console log
OwnerOfLog(script) ==
    FirstUser(get_target_users(GAME_USERS), {u \in Accounts : LogExists(u, script, 1)})

\* the name pwd is local to run_command and bound only by the import of line 234
PwdBound(user) == user # ""

\* line 245 and line 319: no sudo when the agent is the owner or root
RunsDirect(target_user) == caller = target_user \/ caller = "root"

\* lines 245-248: the command line, by its parts
CommandLine(target_user, script, action) ==
    [sudo |-> ~RunsDirect(target_user),
     sudo_user |-> IF RunsDirect(target_user) THEN "" ELSE target_user,
     prog |-> "script", dir |-> target_user, file |-> script, pattern |-> 0,
     arg |-> action, detached |-> TRUE]

\* Popen of a command line: sudo is always there to start; a script started directly
\* must be an executable file
PopenStarts(cmd) ==
    cmd.sudo \/ \E e \in home[cmd.dir] : e.name = cmd.file /\ e.isfile /\ e.exec

Reply(code, detail, cmds) == [code |-> code, detail |-> detail, spawned |-> cmds]

\* lines 220-251, after validation
Dispatch(script, action, user) ==
    LET target_user == IF user = "" THEN OwnerOfScript(script) ELSE user
        cmd == CommandLine(target_user, script, action)
    IN IF user # "" /\ ~KnownAccount(user) THEN Reply(404, "User not found", <<>>)
       ELSE IF target_user = "" THEN Reply(404, "Could not locate script", <<>>)
       ELSE IF ~PwdBound(user) THEN Reply(500, "UnboundLocalError", <<>>)
       ELSE IF ~PopenStarts(cmd) THEN Reply(500, "OSError", <<>>)
       ELSE Reply(200, "triggered", <<cmd>>)

\* run_command
run_command(script, action, user, key) ==
    IF TokenRejected(key) THEN Reply(403, "Invalid API Key", <<>>)
    ELSE IF action \notin allowed_actions THEN Reply(400, "Invalid action", <<>>)
    ELSE IF InvalidScriptName(script) THEN Reply(400, "Invalid script name", <<>>)
    ELSE Dispatch(script, action, user)

\* lines 286-302: the first of possible_paths that exists, else the first
LogPattern(u, script) ==
    IF \E k \in 1..3 : LogExists(u, script, k)
    THEN CHOOSE k \in 1..3 : LogExists(u, script, k) /\ \A j \in 1..k - 1 : ~LogExists(u, script, j)
    ELSE 1

TailCommand(u, script, k, follow, sudo) ==
    [sudo |-> sudo, sudo_user |-> IF sudo THEN u ELSE "",
     prog |-> IF follow THEN "tail -f" ELSE "tail -n", dir |-> u, file |-> script,
     pattern |-> k, arg |-> "", detached |-> FALSE]

\* lines 304-340: direct is what the direct tail did ("ok", "fail", "raise"), elevated
\* what the sudo tail did ("ok", "nofile", "password", "other", "raise")
ReadLog(u, script, direct, elevated) ==
    LET k == LogPattern(u, script)
        tries_direct == LogExists(u, script, k) /\ LogReadable(u, script, k)
        first == IF tries_direct THEN <<TailCommand(u, script, k, FALSE, FALSE)>> ELSE <<>>
        second == first \o <<TailCommand(u, script, k, FALSE, TRUE)>>
    IN IF tries_direct /\ direct = "ok" THEN Reply(200, "logs", first)
       ELSE IF RunsDirect(u) THEN Reply(200, "error: could not read", first)
       ELSE CASE elevated = "ok"       -> Reply(200, "logs", second)
              [] elevated = "nofile"   -> Reply(404, "Log file not found", second)
              [] elevated = "password" -> Reply(403, "Permission denied", second)
              [] elevated = "other"    -> Reply(200, "error: failed to read", second)
              [] OTHER                 -> Reply(200, "error: exception", second)

\* get_logs
get_logs(script, user, lines, key, direct, elevated) ==
    IF TokenRejected(key) THEN Reply(403, "Invalid API Key", <<>>)
    ELSE IF InvalidScriptName(script) THEN Reply(400, "Invalid script name", <<>>)
    ELSE IF InvalidLines(lines) THEN Reply(400, "Lines out of range", <<>>)
    ELSE LET target_user == IF user = "" THEN OwnerOfLog(script) ELSE user IN
         IF user # "" /\ ~KnownAccount(user) THEN Reply(404, "User not found", <<>>)
         ELSE IF target_user = "" THEN Reply(404, "Could not identify user", <<>>)
         ELSE ReadLog(target_user, script, direct, elevated)

\* stream_logs up to the loop: lines 346-378
stream_open(script) ==
    IF InvalidScriptName(script) THEN Reply(0, "Invalid script name", <<>>)
    ELSE IF OwnerOfLog(script) = "" THEN Reply(0, "Log file not found", <<>>)
    ELSE Reply(0, "streaming", <<TailCommand(OwnerOfLog(script), script, 1, TRUE, TRUE)>>)

(***************************************************************************)
(* The request handlers as actions. One request is followed at a time:     *)
(* the handlers share nothing but the host.                                *)
(***************************************************************************)
MaxLines == 2   \* lines the log produces during one stream

ReqScripts ==
    { <<>>, nA, nB, nDotA, <<"a", "/", "b">>, <<"a", "\\", "b">>,
      <<"a", ";", "b">>, <<"a", "|", "b">>, <<"a", "&", "b">> }
ReqActions == {"start", "backup", "rm"}
ReqUsers   == {"", "u1", "svc", "ghost"}
ReqLines   == {0, 1, 10000, 10001}
ReqKeys    == {"good", "bad"}

Request(op, script, action, user, lines, key) ==
    [op |-> op, script |-> script, action |-> action, user |-> user,
     lines |-> lines, key |-> key]

\* POST /command/{script}/{action}
RunCommand ==
    /\ req.op = "none"
    /\ \E script \in ReqScripts, action \in ReqActions, user \in ReqUsers, key \in ReqKeys :
          LET r == run_command(script, action, user, key) IN
          /\ req' = Request("runCommand", script, action, user, 0, key)
          /\ result' = [code |-> r.code, detail |-> r.detail]
          /\ spawned' = r.spawned
    /\ UNCHANGED <<world_vars, status_vars, hub_vars, ws_pc, ws_client, child, sent>>

\* GET /logs/{script}
GetLogs ==
    /\ req.op = "none"
    /\ \E script \in ReqScripts, user \in ReqUsers, lines \in ReqLines, key \in ReqKeys,
          direct \in {"ok", "fail", "raise"},
          elevated \in {"ok", "nofile", "password", "other", "raise"} :
          LET r == get_logs(script, user, lines, key, direct, elevated) IN
          /\ req' = Request("readLogs", script, "", user, lines, key)
          /\ result' = [code |-> r.code, detail |-> r.detail]
          /\ spawned' = r.spawned
    /\ UNCHANGED <<world_vars, status_vars, hub_vars, ws_pc, ws_client, child, sent>>

\* WebSocket /logs/{script}: accept, validate, resolve, spawn tail -f (lines 346-378)
StreamOpen ==
    /\ req.op = "none"
    /\ \E script \in ReqScripts, key \in ReqKeys :
          LET r == stream_open(script) IN
          /\ req' = Request("streamLogs", script, "", "", 0, key)
          /\ result' = [code |-> r.code, detail |-> r.detail]
          /\ spawned' = r.spawned
          /\ ws_pc' = IF r.spawned = <<>> THEN "closed" ELSE "readline"
          /\ child' = IF r.spawned = <<>> THEN "none" ELSE "running"
    /\ ws_client' = "connected"
    /\ UNCHANGED <<world_vars, status_vars, hub_vars, sent>>

\* line 381 returns a line the log produced
StreamReadLine ==
    /\ ws_pc = "readline" /\ child = "running" /\ sent < MaxLines
    /\ ws_pc' = "send"
    /\ UNCHANGED <<world_vars, status_vars, hub_vars, req, result, spawned, ws_client, child, sent>>

\* lines 381-383: the child has exited, readline returns b"" and the loop breaks
StreamEof ==
    /\ ws_pc = "readline" /\ child = "exited"
    /\ ws_pc' = "closed"
    /\ UNCHANGED <<world_vars, status_vars, hub_vars, req, result, spawned, ws_client, child, sent>>

\* line 384 with the client connected
StreamSend ==
    /\ ws_pc = "send" /\ ws_client = "connected"
    /\ sent' = sent + 1
    /\ ws_pc' = "readline"
    /\ UNCHANGED <<world_vars, status_vars, hub_vars, req, result, spawned, ws_client, child>>

\* line 384 raises WebSocketDisconnect: lines 385-387 terminate the child
StreamSendDisconnect ==
    /\ ws_pc = "send" /\ ws_client = "gone"
    /\ child' = IF child = "running" THEN "terminated" ELSE child
    /\ ws_pc' = "closed"
    /\ UNCHANGED <<world_vars, status_vars, hub_vars, req, result, spawned, ws_client, sent>>

\* line 384 raises another error (the send on a closed connection, or decode of the
\* line): lines 388-391 send the error and close, and do not touch the child
StreamSendError ==
    /\ ws_pc = "send"
    /\ ws_pc' = "closed"
    /\ result' = [code |-> 0, detail |-> "Error"]
    /\ UNCHANGED <<world_vars, status_vars, hub_vars, req, spawned, ws_client, child, sent>>

\* the client goes away while the stream is open
ClientDisconnect ==
    /\ ws_pc \in {"readline", "send"} /\ ws_client = "connected"
    /\ ws_client' = "gone"
    /\ UNCHANGED <<world_vars, status_vars, hub_vars, req, result, spawned, ws_pc, child, sent>>

\* tail -f ends by itself (sudo refused, the child is killed)
ChildExit ==
    /\ ws_pc \in {"readline", "send"} /\ child = "running"
    /\ child' = "exited"
    /\ UNCHANGED <<world_vars, status_vars, hub_vars, req, result, spawned, ws_pc, ws_client, sent>>

\* hosts the requests are served on
SpokeHost ==
    /\ GAME_USERS \in {<<"auto">>, <<"u2", "u1">>}
    /\ caller \in {"root", "u1", "agent"}
    /\ \E H1, H2 \in {{}, {DirPool[1]}} :
           home = [NoHome EXCEPT !["u1"] = H1, !["u2"] = H2, !["svc"] = {DirPool[2]}]
    /\ \E L1 \in {{}, {[script |-> nA, pattern |-> 1, readable |-> TRUE]}},
          L2 \in {{}, {[script |-> nA, pattern |-> 1, readable |-> FALSE]},
                      {[script |-> nB, pattern |-> 2, readable |-> TRUE]}} :
           logfiles = [NoHome EXCEPT !["u1"] = L1, !["u2"] = L2]
    /\ tmux = NoHome
    /\ sockets = {}
    /\ procs = {}
    /\ fail = NoFail

InitSpoke == SpokeHost /\ InitStatusVars /\ InitSpokeVars /\ InitHubVars

NextSpoke ==
    \/ RunCommand
    \/ GetLogs
    \/ StreamOpen
    \/ StreamReadLine
    \/ StreamEof
    \/ StreamSend
    \/ StreamSendDisconnect
    \/ StreamSendError
    \/ ClientDisconnect
    \/ ChildExit

\* the command, log and stream requests over the hosts
SpecSpoke == InitSpoke /\ [][NextSpoke]_vars

(***************************************************************************)
(* Properties of the command, log and stream requests.                     *)
(***************************************************************************)
\* a script name the validation must refuse: empty, a leading dot, or one of / \ ; | &
NameRefused(script) ==
    \/ Len(script) = 0
    \/ script[1] = "."
    \/ \E i \in DOMAIN script : script[i] \in {"/", "\\", ";", "|", "&"}

\* the request line of the last request is one the validation must refuse
RequestRefused ==
    \/ NameRefused(req.script)
    \/ req.op = "runCommand" /\ req.action \notin {"start", "stop", "restart", "update", "backup"}
    \/ req.op = "readLogs" /\ (req.lines < 1 \/ req.lines > 10000)

\* C4: a runCommand, readLogs or streamLogs request with a refused script name, a
\* runCommand with an action outside the allow-list and a readLogs with lines outside
\* [1,10000] have spawned no subprocess, and are answered with the validation error.
C4_ValidationBeforeSpawn ==
    (req.op \in {"runCommand", "readLogs", "streamLogs"} /\ RequestRefused) =>
        /\ spawned = <<>>
        /\ child = "none"
        /\ (req.op = "streamLogs" \/ req.key = API_KEY) =>
              /\ result.detail \in {"Invalid action", "Invalid script name", "Lines out of range"}
              /\ req.op # "streamLogs" => result.code = 400

\* a readLogs for a script whose log exists, refused for its lines alone
C4_Witness ==
    /\ req.op = "readLogs" /\ req.key = API_KEY
    /\ req.script = nA /\ req.user = ""
    /\ OwnerOfLog(nA) # ""
    /\ req.lines = 10001
    /\ result.code = 400 /\ spawned = <<>>

\* C8: no tail child outlives its stream: once the handler of a stream whose client
\* has disconnected is over, the child it spawned is no longer running.
C8_NoOrphanTail ==
    (req.op = "streamLogs" /\ ws_pc = "closed" /\ ws_client = "gone") => child # "running"

\* C10: a runCommand that passes validation and names no user launches exactly one
\* detached subprocess, for the first managed user whose home holds the script, and
\* answers "triggered"; when no managed user's home holds it, it answers 404 and
\* launches nothing.
C10_OwnerResolved ==
    ( /\ req.op = "runCommand" /\ req.key = API_KEY /\ req.user = ""
      /\ ~RequestRefused ) =>
        LET managed == get_target_users(GAME_USERS)
            holders == {i \in DOMAIN managed : \E e \in home[managed[i]] : e.name = req.script}
        IN IF holders = {}
           THEN result.code = 404 /\ spawned = <<>>
           ELSE LET first == CHOOSE i \in holders : \A j \in holders : i <= j IN
                /\ result.code = 200 /\ result.detail = "triggered"
                /\ Len(spawned) = 1
                /\ spawned[1].dir = managed[first]
                /\ spawned[1].detached

(***************************************************************************)
(* Heartbeat Monitor and alert sink (hub).                                 *)
(***************************************************************************)
MaxSpokes == 2   \* rows of the spokes table
MaxCycles == 2   \* heartbeat cycles followed

\* what client.get of line 203 does: a response with its status code, or an exception
PollOutcomes == {"200", "500", "refused", "timeout"}

\* what send_discord_alert does: no webhook configured, the post is made, or the
\* settings read or the post raises
Deliveries == {"no_webhook", "posted", "raises"}

Alert(i, kind) == [spoke |-> snapshot[i], kind |-> kind]

\* add_spoke: a row is inserted
AddSpoke ==
    /\ Len(spokes) < MaxSpokes
    /\ spokes' = Append(spokes, Len(spokes) + 1)
    /\ UNCHANGED <<world_vars, status_vars, spoke_vars,
                   hb_pc, snapshot, hb_i, inflight, outcome, alerts, cycle>>

\* lines 193-198: the sleep is over and the rows are fetched
HbSnapshot ==
    /\ hb_pc = "sleep" /\ cycle < MaxCycles
    /\ snapshot' = spokes
    /\ hb_i' = 1
    /\ outcome' = <<>>
    /\ alerts' = <<>>
    /\ hb_pc' = "next"
    /\ UNCHANGED <<world_vars, status_vars, spoke_vars, spokes, inflight, cycle>>

\* line 203: the request to the next row is sent and awaited
HbPollStart ==
    /\ hb_pc = "next" /\ hb_i <= Len(snapshot)
    /\ inflight' = {hb_i}
    /\ hb_pc' = "polling"
    /\ UNCHANGED <<world_vars, status_vars, spoke_vars,
                   spokes, snapshot, hb_i, outcome, alerts, cycle>>

\* lines 203-207: the awaited request ends; a status other than 200 calls
\* send_discord_alert inside the try, an exception calls it from the handler
HbPollReturn ==
    /\ hb_pc = "polling"
    /\ \E o \in PollOutcomes :
          /\ outcome' = Append(outcome, o)
          /\ IF o = "200"
             THEN /\ hb_i' = hb_i + 1 /\ hb_pc' = "next" /\ alerts' = alerts
             ELSE IF o = "500"
             THEN /\ alerts' = Append(alerts, Alert(hb_i, "degraded"))
                  /\ hb_pc' = "alert_degraded" /\ hb_i' = hb_i
             ELSE /\ alerts' = Append(alerts, Alert(hb_i, "offline"))
                  /\ hb_pc' = "alert_offline" /\ hb_i' = hb_i
    /\ inflight' = {}
    /\ UNCHANGED <<world_vars, status_vars, spoke_vars, spokes, snapshot, cycle>>

\* line 205 returns, or raises into the except of line 206, which sends the offline alert
HbDegradedSent ==
    /\ hb_pc = "alert_degraded"
    /\ \E d \in Deliveries :
          IF d = "raises"
          THEN /\ alerts' = Append(alerts, Alert(hb_i, "offline"))
               /\ hb_pc' = "alert_offline" /\ hb_i' = hb_i
          ELSE /\ alerts' = alerts /\ hb_pc' = "next" /\ hb_i' = hb_i + 1
    /\ UNCHANGED <<world_vars, status_vars, spoke_vars,
                   spokes, snapshot, inflight, outcome, cycle>>

\* line 207 returns, or raises out of the handler, the loop and the task
HbOfflineSent ==
    /\ hb_pc = "alert_offline"
    /\ \E d \in Deliveries :
          IF d = "raises"
          THEN hb_pc' = "dead" /\ hb_i' = hb_i
          ELSE hb_pc' = "next" /\ hb_i' = hb_i + 1
    /\ UNCHANGED <<world_vars, status_vars, spoke_vars,
                   spokes, snapshot, inflight, outcome, alerts, cycle>>

\* the for loop of line 201 is over: back to the sleep of line 193
HbCycleEnd ==
    /\ hb_pc = "next" /\ hb_i > Len(snapshot)
    /\ hb_pc' = "sleep"
    /\ cycle' = cycle + 1
    /\ UNCHANGED <<world_vars, status_vars, spoke_vars,
                   spokes, snapshot, hb_i, inflight, outcome, alerts>>

InitHub ==
    /\ GAME_USERS = <<"auto">> /\ caller = "agent"
    /\ home = NoHome /\ tmux = NoHome /\ logfiles = NoHome
    /\ sockets = {} /\ procs = {} /\ fail = NoFail
    /\ InitStatusVars /\ InitSpokeVars /\ InitHubVars

NextHub ==
    \/ AddSpoke
    \/ HbSnapshot
    \/ HbPollStart
    \/ HbPollReturn
    \/ HbDegradedSent
    \/ HbOfflineSent
    \/ HbCycleEnd

\* the hub's heartbeat monitor and the spokes table
SpecHub == InitHub /\ [][NextHub]_vars

\* the number of alerts of one kind handed to the sink for the i-th spoke of the snapshot
AlertCount(i, kind) ==
    Cardinality({k \in DOMAIN alerts : alerts[k] = Alert(i, kind)})

\* the i-th spoke of the snapshot has been dealt with in this cycle
Handled(i) == i \in DOMAIN outcome /\ (i < hb_i \/ hb_pc = "dead")

\* C5: in a cycle, a spoke whose poll returned a status other than 200 gets exactly one
\* degraded alert and no offline alert, one whose poll failed exactly one offline alert,
\* one that returned 200 no alert, whatever the delivery of the alerts did.
C5_OneAlertPerOutcome ==
    \A i \in DOMAIN snapshot :
        Handled(i) =>
            /\ AlertCount(i, "degraded") = (IF outcome[i] = "500" THEN 1 ELSE 0)
            /\ AlertCount(i, "offline") = (IF outcome[i] \in {"refused", "timeout"} THEN 1 ELSE 0)

\* C6: no poll outcome and no failure to deliver an alert ends the polling loop.
C6_MonitorNeverStops == hb_pc # "dead"

\* C7: the polls of one cycle overlap: while the poll of a spoke, or the delivery of
\* its alert, is in flight, every other spoke of the snapshot has been polled or is
\* being polled, so none waits for that spoke.
C7_PollsOverlap ==
    \A i, j \in DOMAIN snapshot :
        ( /\ i # j
          /\ (i \in inflight \/ (hb_i = i /\ hb_pc \in {"alert_degraded", "alert_offline"})) )
            => (j \in inflight \/ j \in DOMAIN outcome)

(***************************************************************************)
(* Properties of resolution, privilege and authentication.                 *)
(***************************************************************************)
\* the managed-user set of the host
ManagedUsers == Range(get_target_users(GAME_USERS))

\* C11: a runCommand that names a user is accepted only when the account exists and
\* its home holds the script; otherwise it is answered 404 and launches nothing.
C11_ExplicitUserResolved ==
    ( /\ req.op = "runCommand" /\ req.key = API_KEY /\ req.user # ""
      /\ ~RequestRefused ) =>
        LET resolvable ==
                /\ req.user \in Accounts
                /\ \E e \in home[req.user] : e.name = req.script
        IN /\ result.code = 200 => resolvable
           /\ ~resolvable => (result.code = 404 /\ spawned = <<>>)

\* C12: every subprocess of runCommand, readLogs and streamLogs is wrapped in
\* sudo -n -u owner exactly when the agent is neither the owner nor root.
C12_OnePrivilegeStrategy ==
    req.op \in {"runCommand", "readLogs", "streamLogs"} =>
        \A k \in DOMAIN spawned :
            spawned[k].sudo <=> (caller # spawned[k].dir /\ caller # "root")

\* C13: runCommand and readLogs act only for accounts of the managed-user set: every
\* subprocess is for a managed user's home, and a named user outside the set is
\* answered 404 with nothing launched.
C13_OnlyManagedUsers ==
    req.op \in {"runCommand", "readLogs"} =>
        /\ \A k \in DOMAIN spawned : spawned[k].dir \in ManagedUsers
        /\ ( /\ req.key = API_KEY /\ ~RequestRefused
             /\ req.user # "" /\ req.user \notin ManagedUsers )
               => (result.code = 404 /\ spawned = <<>>)

\* C14: the sessions listed for a managed user are sessions of that user's own tmux
\* server, whoever the agent runs as and whether or not the user's socket exists.
C14_OwnSessionsOnly ==
    st_pc = "done" =>
        \A i \in DOMAIN targets :
            /\ Range(active_sessions[i]) \subseteq tmux[targets[i]]
            /\ \A x \in Range(response.sessions) :
                  (x.user = targets[i] /\ x.is_zombie) => x.script \in tmux[targets[i]]

\* C15: a request that does not present the configured API key spawns no subprocess
\* and is sent no log line.
C15_KeyCheckedFirst ==
    (req.op # "none" /\ req.key # API_KEY) =>
        /\ spawned = <<>>
        /\ child = "none"
        /\ sent = 0
        /\ result.detail \notin {"logs", "streaming", "triggered"}

====
